---- MODULE Spec2Model ----
(***************************************************************************)
(* Basel Traffic (src/app.py): the data-preparation and aggregation        *)
(* pipeline of the dashboard script, as a state machine.                   *)
(*                                                                         *)
(* Numbers.  A pandas cell that may be missing is a tuple: <<>> is NaN /   *)
(* NaT / <NA> / None, <<x>> is the value x.  Exact values are integers;    *)
(* a quotient (a mean, interval/3600, a quantile) is a reduced fraction    *)
(* <<numerator, denominator>> with denominator > 0, so that arithmetic is  *)
(* exact and equal values are equal terms.  Floating-point rounding is not *)
(* modelled.                                                               *)
(***************************************************************************)
EXTENDS Integers, Sequences, FiniteSets, TLC

VARIABLES
    csv,      \* the input file basel.csv: [header, rows] of raw cells
    cache,    \* what st.cache_data holds for load_data: <<>> or <<frame>>
    params,   \* the widget values of the last script run (<<>> before any)
    df,       \* the script's df after line 155 (<<>> before any run)
    df_f,     \* the script's df_f after line 182 (<<>> before any run)
    view,     \* what the last script run computed and displayed (<<>> before any)
    fig,      \* the data handed to the plotting surface by the last figure call
    probe     \* the last direct call of get_thresholds + classify_status

vars == <<csv, cache, params, df, df_f, view, fig, probe>>

---------------------------------------------------------------------------
(* Bounds of the model *)

\* rows of the input file in the query specification
MaxRows == 2
\* rows of the input file in the aggregation specification
MaxAggRows == 2
\* rows of the input file in the figure specification
MaxFigRows == 2
\* length of the flow series in the classifier specification
MaxSeries == 3

---------------------------------------------------------------------------
(* Missing values and exact fractions *)

NaN == <<>>

Num(x) == <<x>>

isna(v) == v = <<>>

Val(v) == v[1]

Abs(n) == IF n < 0 THEN -n ELSE n

RECURSIVE GCD(_, _)
GCD(a, b) == IF b = 0 THEN a ELSE GCD(b, a % b)

\* the reduced fraction n/d, d > 0
Frac(n, d) == LET g == GCD(Abs(n), d) IN <<n \div g, d \div g>>

FracOfInt(n) == <<n, 1>>

FracLeq(a, b) == a[1] * b[2] <= b[1] * a[2]

FracLt(a, b) == a[1] * b[2] < b[1] * a[2]

FracFloor(a) == a[1] \div a[2]

RECURSIVE SumSeq(_)
SumSeq(s) == IF s = <<>> THEN 0 ELSE Head(s) + SumSeq(Tail(s))

\* the present values of a column, in row order
RECURSIVE NonNull(_)
NonNull(s) ==
    IF s = <<>> THEN <<>>
    ELSE IF isna(Head(s)) THEN NonNull(Tail(s))
    ELSE <<Val(Head(s))>> \o NonNull(Tail(s))

\* a finite set of integers as an ascending sequence
RECURSIVE Ascending(_)
Ascending(S) ==
    IF S = {} THEN <<>>
    ELSE LET m == CHOOSE x \in S : \A y \in S : x <= y
         IN <<m>> \o Ascending(S \ {m})

\* a sequence of integers sorted ascending (duplicates kept)
RECURSIVE Insert(_, _)
Insert(x, s) ==
    IF s = <<>> THEN <<x>>
    ELSE IF x <= Head(s) THEN <<x>> \o s
    ELSE <<Head(s)>> \o Insert(x, Tail(s))

RECURSIVE SortInts(_)
SortInts(s) == IF s = <<>> THEN <<>> ELSE Insert(Head(s), SortInts(Tail(s)))

Column(rows, c) == [i \in 1..Len(rows) |-> rows[i][c]]

\* mean with the missing values counted as rows: the sum of the present values
\* over the number of rows
mean_over_rows(col) ==
    LET xs == NonNull(col)
    IN IF xs = <<>> THEN NaN ELSE Num(Frac(SumSeq(xs), Len(col)))

\* Series.mean(): the mean of the present values, NaN when there is none
mean(col) ==
    LET xs == NonNull(col)
    IN IF xs = <<>> THEN NaN ELSE Num(Frac(SumSeq(xs), Len(xs)))

---------------------------------------------------------------------------
(* The input file *)

\* a raw cell that parses to the number (or day number) n
Cell(n) == [ok |-> TRUE, val |-> n]

\* a raw cell that does not parse (text, or an empty field)
Junk == [ok |-> FALSE, val |-> 0]

\* pd.to_numeric(errors="coerce")
to_numeric(c) == IF c.ok THEN Num(c.val) ELSE NaN

\* pd.to_datetime(errors="coerce"); a date is its day number, 1970-01-01 = 0
to_datetime(c) == IF c.ok THEN Num(c.val) ELSE NaN

\* Series.dt.weekday / dt.dayofweek: Monday = 0 (1970-01-01 was a Thursday)
dt_weekday(day) == IF isna(day) THEN NaN ELSE Num((Val(day) + 3) % 7)

RawCols == {"detid", "day", "interval", "flow", "occ"}

DerivedCols == {"hour", "hour_bin", "kategori_hari"}

SeqsUpTo(S, n) == UNION {[1..k -> S] : k \in 1..n}

---------------------------------------------------------------------------
(* load_data *)

\* line 29: the lambda applied to dt.weekday; NaN is not in [5, 6]
kategori_hari_of(wd) ==
    IF ~isna(wd) /\ Val(wd) \in {5, 6} THEN "Akhir Pekan" ELSE "Hari Kerja"

\* lines 25-26: hour = interval / 3600.0, hour_bin = floor(hour) as Int64
hour_of(interval) ==
    IF isna(interval) THEN NaN ELSE Num(Frac(Val(interval), 3600))

hour_bin_of(hour) == IF isna(hour) THEN NaN ELSE Num(FracFloor(Val(hour)))

load_row(r) ==
    LET day      == to_datetime(r.day)
        interval == to_numeric(r.interval)
        hour     == hour_of(interval)
    IN [detid         |-> r.detid,
        day           |-> day,
        interval      |-> interval,
        flow          |-> to_numeric(r.flow),
        occ           |-> to_numeric(r.occ),
        hour          |-> hour,
        hour_bin      |-> hour_bin_of(hour),
        kategori_hari |-> kategori_hari_of(dt_weekday(day))]

load_data(file) ==
    [cols |-> file.header \cup DerivedCols,
     rows |-> [i \in 1..Len(file.rows) |-> load_row(file.rows[i])]]

\* @st.cache_data: the function runs on the first call; every call returns a
\* copy of the stored frame
cache_data(c, file) == IF c = <<>> THEN load_data(file) ELSE Val(c)

---------------------------------------------------------------------------
(* drop_useless_columns *)

\* null_threshold = 0.95, in percent
NullThresholdPct == 95

IsNullAt(row, c) == IF c = "kategori_hari" THEN FALSE ELSE isna(row[c])

NullCount(rows, c) == Cardinality({i \in 1..Len(rows) : IsNullAt(rows[i], c)})

\* df.isna().mean() >= null_threshold (the mean of no rows is NaN: never >=)
drop_cols(f) ==
    {c \in f.cols : Len(f.rows) > 0
                    /\ 100 * NullCount(f.rows, c) >= NullThresholdPct * Len(f.rows)}

drop_useless_columns(f) == [f EXCEPT !.cols = f.cols \ drop_cols(f)]

---------------------------------------------------------------------------
(* Filters (lines 175-182) *)

DayModes == {"Semua", "Hari Kerja", "Akhir Pekan"}

Sensitivities == {"Sedang", "Rendah", "Tinggi"}

\* the detector ids of the model, in sorted order
Detids == <<"a", "b">>

\* line 166: the select box's options
detids(f) ==
    {"Semua Detektor"} \cup
    (IF "detid" \in f.cols
     THEN {Val(f.rows[i].detid) : i \in {j \in 1..Len(f.rows) : ~isna(f.rows[j].detid)}}
     ELSE {})

\* lines 178-179
filter_day(f, day_mode) ==
    IF day_mode # "Semua"
    THEN [f EXCEPT !.rows = SelectSeq(f.rows, LAMBDA r : r.kategori_hari = day_mode)]
    ELSE f

\* lines 181-182
filter_detid(f, detid_selected) ==
    IF detid_selected # "Semua Detektor" /\ "detid" \in f.cols
    THEN [f EXCEPT !.rows = SelectSeq(f.rows, LAMBDA r : r.detid = Num(detid_selected))]
    ELSE f

apply_filters(f, day_mode, detid_selected) ==
    filter_detid(filter_day(f, day_mode), detid_selected)

---------------------------------------------------------------------------
(* agg_24h *)

\* a call's outcome: the table it returns, or the exception it raises
Returned(rows) == [raised |-> "none", rows |-> rows]

Raised(exc) == [raised |-> exc, rows |-> <<>>]

\* the rows of one hour bucket
hour_group(rows, h) == SelectSeq(rows, LAMBDA r : r.hour_bin = Num(h))

\* n = ("flow", "size"): the number of rows of the group
group_n(rows) == Len(rows)

agg_row(rows, h) ==
    LET g == hour_group(rows, h)
    IN [hour_bin  |-> h,
        flow_mean |-> mean(Column(g, "flow")),
        occ_mean  |-> mean(Column(g, "occ")),
        n         |-> group_n(g)]

\* the keys of a groupby: sorted ascending
hour_keys(rows) == Ascending({Val(rows[i].hour_bin) : i \in 1..Len(rows)})

agg_24h(f) ==
    IF ~({"hour_bin", "flow", "occ"} \subseteq f.cols)
    THEN Raised("KeyError")
    ELSE LET d    == SelectSeq(f.rows, LAMBDA r : ~isna(r.hour_bin))
             keys == hour_keys(d)
         IN Returned([i \in 1..Len(keys) |-> agg_row(d, keys[i])])

---------------------------------------------------------------------------
(* get_thresholds and classify_status *)

\* qs with the triples of "Rendah" and "Tinggi" exchanged
qs_exchanged(sensitivity) ==
    IF sensitivity = "Rendah" THEN <<15, 35, 60>>
    ELSE IF sensitivity = "Tinggi" THEN <<35, 65, 85>>
    ELSE <<25, 50, 75>>

\* lines 52-57: the quantiles of a sensitivity, in percent; any value other
\* than "Rendah" and "Tinggi" takes the else branch
qs(sensitivity) ==
    IF sensitivity = "Rendah" THEN <<35, 65, 85>>
    ELSE IF sensitivity = "Tinggi" THEN <<15, 35, 60>>
    ELSE <<25, 50, 75>>

\* Series.quantile(q), linear interpolation, of a sorted non-empty sequence:
\* at position q * (n - 1), between the two neighbouring order statistics
quantile(sorted, pct) ==
    LET pos  == pct * (Len(sorted) - 1)
        lo   == pos \div 100
        fr   == pos % 100
        low  == sorted[lo + 1]
        high == IF fr = 0 THEN low ELSE sorted[lo + 2]
    IN Frac(100 * low + (high - low) * fr, 100)

\* None is <<>>; otherwise <<q1, q2, q3>>
get_thresholds(flow_series, sensitivity) ==
    LET s == SortInts(NonNull(flow_series))
        q == qs(sensitivity)
    IN IF Len(s) = 0 THEN <<>>
       ELSE <<quantile(s, q[1]), quantile(s, q[2]), quantile(s, q[3])>>

\* classify_status with strict comparisons: a boundary value falls in the
\* upper class
classify_status_strict(flow_value, thresholds) ==
    IF thresholds = <<>> \/ isna(flow_value) THEN "Tidak tersedia"
    ELSE IF FracLt(Val(flow_value), thresholds[1]) THEN "Lancar"
    ELSE IF FracLt(Val(flow_value), thresholds[2]) THEN "Sedang"
    ELSE IF FracLt(Val(flow_value), thresholds[3]) THEN "Padat"
    ELSE "Sangat Padat"

classify_status(flow_value, thresholds) ==
    IF thresholds = <<>> \/ isna(flow_value) THEN "Tidak tersedia"
    ELSE IF FracLeq(Val(flow_value), thresholds[1]) THEN "Lancar"
    ELSE IF FracLeq(Val(flow_value), thresholds[2]) THEN "Sedang"
    ELSE IF FracLeq(Val(flow_value), thresholds[3]) THEN "Padat"
    ELSE "Sangat Padat"

---------------------------------------------------------------------------
(* agg_by_detid_at_hour *)

detid_group(rows, id) == SelectSeq(rows, LAMBDA r : r.detid = Num(id))

rank_row(rows, id) ==
    LET g == detid_group(rows, id)
    IN [detid     |-> id,
        flow_mean |-> mean(Column(g, "flow")),
        occ_mean  |-> mean(Column(g, "occ")),
        n         |-> Len(g)]

\* a comes strictly before b in sort_values("flow_mean", ascending=False):
\* larger first, NaN last
RankBefore(a, b) ==
    /\ ~isna(a.flow_mean)
    /\ (isna(b.flow_mean) \/ FracLt(Val(b.flow_mean), Val(a.flow_mean)))

\* rows with equal flow_mean keep the groupby's (sorted detid) order
RECURSIVE RankInsert(_, _)
RankInsert(x, s) ==
    IF s = <<>> THEN <<x>>
    ELSE IF RankBefore(x, Head(s)) THEN <<x>> \o s
    ELSE <<Head(s)>> \o RankInsert(x, Tail(s))

RECURSIVE RankSort(_)
RankSort(s) ==
    IF s = <<>> THEN <<>>
    ELSE RankInsert(s[Len(s)], RankSort(SubSeq(s, 1, Len(s) - 1)))

agg_by_detid_at_hour(f, hour_selected) ==
    LET d   == SelectSeq(f.rows, LAMBDA r : r.hour_bin = Num(hour_selected))
        ids == SelectSeq(Detids, LAMBDA id : \E i \in 1..Len(d) : d[i].detid = Num(id))
    IN IF "detid" \notin f.cols THEN <<>>
       ELSE RankSort([i \in 1..Len(ids) |-> rank_row(d, ids[i])])

\* det_rank.head(10)
TopN == 10

head(s, k) == SubSeq(s, 1, IF Len(s) < k THEN Len(s) ELSE k)

---------------------------------------------------------------------------
(* The metrics (lines 232-238) *)

RECURSIVE Pow10(_)
Pow10(k) == IF k = 0 THEN 1 ELSE 10 * Pow10(k - 1)

\* f"{x:.<places>f}": x rounded to that many decimals (ties to even), as the
\* integer x * 10^places
format_fixed(x, places) ==
    LET num == x[1] * Pow10(places)
        q   == num \div x[2]
        r   == num % x[2]
    IN IF 2 * r > x[2] THEN q + 1
       ELSE IF 2 * r = x[2] THEN q + (q % 2)
       ELSE q

\* "\u2014" if pd.isna(x) else the formatted number
metric_text(x, places) ==
    IF isna(x) THEN [text |-> "dash", digits |-> 0, places |-> 0]
    ELSE [text |-> "number", digits |-> format_fixed(Val(x), places), places |-> places]

\* lines 194-200: the kind of box the status is shown in
status_box(status) ==
    IF status \in {"Sangat Padat", "Padat"} THEN "warning"
    ELSE IF status = "Sedang" THEN "info"
    ELSE "success"

---------------------------------------------------------------------------
(* One run of the script (lines 154-247) *)

\* the slider's values the model tries (the slider offers 0..23)
Hours == {0, 1}

\* what a run shows when line 185 raises: the script stops there
Aborted(exc) ==
    [exc |-> exc, agg24 |-> <<>>, flow_est |-> NaN, occ_est |-> NaN, n_est |-> 0,
     thresholds |-> <<>>, status |-> "", box |-> "", ranking |-> FALSE,
     top10 |-> <<>>, flow_text |-> <<>>, occ_text |-> <<>>, n_text |-> <<>>,
     charts |-> <<>>]

\* lines 185-247 on the filtered frame f.  The file has no lat / lon columns
\* (RawCols), so line 212 takes the branch of the detector ranking.
summaries(f, hour_selected, sensitivity) ==
    LET a == agg_24h(f)
    IN IF a.raised # "none" THEN Aborted(a.raised)
       ELSE
         LET agg24      == a.rows
             row        == SelectSeq(agg24, LAMBDA x : x.hour_bin = hour_selected)
             flow_est   == IF Len(row) > 0 THEN row[1].flow_mean ELSE NaN
             occ_est    == IF Len(row) > 0 THEN row[1].occ_mean ELSE NaN
             n_est      == IF Len(row) > 0 THEN row[1].n ELSE 0
             thresholds == get_thresholds(Column(f.rows, "flow"), sensitivity)
             status     == classify_status(flow_est, thresholds)
             det_rank   == agg_by_detid_at_hour(f, hour_selected)
         IN [exc        |-> "none",
             agg24      |-> agg24,
             flow_est   |-> flow_est,
             occ_est    |-> occ_est,
             n_est      |-> n_est,
             thresholds |-> thresholds,
             status     |-> status,
             box        |-> status_box(status),
             ranking    |-> Len(det_rank) > 0,
             top10      |-> head(det_rank, TopN),
             flow_text  |-> Num(metric_text(flow_est, 2)),
             occ_text   |-> Num(metric_text(occ_est, 4)),
             n_text     |-> Num(n_est),
             charts     |-> IF Len(agg24) = 0 THEN <<>> ELSE agg24]

\* the filters applied in place to the one frame the cache holds
cache_after_run_aliased(loaded, filtered) == [loaded EXCEPT !.rows = filtered.rows]

\* the cached frame after a run: st.cache_data hands the script a copy, and
\* lines 155 and 176-182 bind new frames, so the stored frame is never written
cache_after_run(loaded, filtered) == loaded

Rerun(hour_selected, detid_selected, day_mode, sensitivity) ==
    LET loaded   == cache_data(cache, csv)
        base     == drop_useless_columns(loaded)
        filtered == apply_filters(base, day_mode, detid_selected)
    IN /\ detid_selected \in detids(base)
       /\ cache' = Num(cache_after_run(loaded, filtered))
       /\ params' = Num([hour_selected  |-> hour_selected,
                         detid_selected |-> detid_selected,
                         day_mode       |-> day_mode,
                         sensitivity    |-> sensitivity])
       /\ df' = Num(base)
       /\ df_f' = Num(filtered)
       /\ view' = Num(summaries(filtered, hour_selected, sensitivity))
       /\ UNCHANGED <<csv, fig, probe>>

---------------------------------------------------------------------------
(* The query specification: files that vary detector, day and missing flow *)

Friday == 1

Saturday == 2

File(header, rows) == [header |-> header, rows |-> rows]

Files(Rows, n) ==
    {File(RawCols, r) : r \in SeqsUpTo(Rows, n)}
    \cup {File(RawCols \ {"detid"}, [i \in 1..Len(r) |-> [r[i] EXCEPT !.detid = NaN]]) :
             r \in SeqsUpTo({x \in Rows : x.detid = Num(Detids[1])}, n)}

QueryRows ==
    [detid    : {Num("a"), Num("b")},
     day      : {Cell(Friday), Cell(Saturday), Junk},
     interval : {Cell(0)},
     flow     : {Cell(2)},
     occ      : {Cell(1)}]

Fresh ==
    /\ cache = <<>>
    /\ params = <<>>
    /\ df = <<>>
    /\ df_f = <<>>
    /\ view = <<>>
    /\ fig = <<>>
    /\ probe = <<>>

Init == csv \in Files(QueryRows, MaxRows) /\ Fresh

Next ==
    \E h \in Hours, d \in {"Semua Detektor", "a", "b"}, m \in DayModes, s \in Sensitivities :
        Rerun(h, d, m, s)

Spec == Init /\ [][Next]_vars

---------------------------------------------------------------------------
(* The aggregation specification: one detector, one day; files that vary  *)
(* interval, flow and occupancy, missing values included                   *)

AggRows ==
    [detid    : {Num("a")},
     day      : {Cell(Friday)},
     interval : {Cell(0), Cell(3700), Cell(86400), Junk},
     flow     : {Cell(1), Cell(2), Junk},
     occ      : {Cell(1), Junk}]

InitAgg == csv \in {File(RawCols, r) : r \in SeqsUpTo(AggRows, MaxAggRows)} /\ Fresh

NextAgg ==
    \E h \in Hours, m \in {"Semua", "Akhir Pekan"} :
        Rerun(h, "Semua Detektor", m, "Sedang")

SpecAgg == InitAgg /\ [][NextAgg]_vars

---------------------------------------------------------------------------
(* The classifier specification: get_thresholds and classify_status called *)
(* on a flow series and a flow value                                       *)

SeriesValues == {NaN, Num(0), Num(1), Num(2), Num(3)}

FlowValues == {NaN, Num(<<0, 1>>), Num(<<1, 2>>), Num(<<1, 1>>), Num(<<3, 2>>), Num(<<2, 1>>), Num(<<3, 1>>)}

\* the select box's values and one value it does not offer
AnySensitivity == Sensitivities \cup {"Lain"}

NoCall == [called |-> FALSE, sensitivity |-> "", flow_value |-> NaN, thresholds |-> <<>>, status |-> ""]

\* the file is its flow column alone
InitClassifier ==
    /\ csv \in {[flow |-> x] : x \in SeqsUpTo(SeriesValues, MaxSeries)}
    /\ probe = NoCall
    /\ cache = <<>>
    /\ params = <<>>
    /\ df = <<>>
    /\ df_f = <<>>
    /\ view = <<>>
    /\ fig = <<>>

\* lines 191-192 on the column csv.flow
Classify(flow_value, sensitivity) ==
    LET thresholds == get_thresholds(csv.flow, sensitivity)
    IN /\ probe' = [called      |-> TRUE,
                    sensitivity |-> sensitivity,
                    flow_value  |-> flow_value,
                    thresholds  |-> thresholds,
                    status      |-> classify_status(flow_value, thresholds)]
       /\ UNCHANGED <<csv, cache, params, df, df_f, view, fig>>

NextClassifier == \E v \in FlowValues, s \in AnySensitivity : Classify(v, s)

SpecClassifier == InitClassifier /\ [][NextClassifier]_vars

---------------------------------------------------------------------------
(* The figure functions: the data each hands to the plotting surface *)

\* Series.std() squared (ddof = 1): NaN for fewer than two values
variance(xs) ==
    LET n  == Len(xs)
        sq == [i \in 1..n |-> xs[i] * xs[i]]
    IN IF n < 2 THEN NaN
       ELSE Num(Frac(n * SumSeq(sq) - SumSeq(xs) * SumSeq(xs), n * (n - 1)))

\* (std / sqrt(n)) squared
se_squared(var, n) == Frac(var[1], var[2] * n)

\* the bound mean + sign * 1.96 * se, kept exact as the mean, the side and
\* (1.96 * se) squared; a zero width has side 0, so that the bound equals the
\* mean exactly when the two are the same number
ci_bound(m, sign, se2) ==
    LET w2 == Frac(se2[1] * 196 * 196, se2[2] * 100 * 100)
    IN [mid |-> m, side |-> IF w2[1] = 0 THEN 0 ELSE sign, width2 |-> w2]

\* a figure call's outcome: the exception raised, whether a figure is returned,
\* and the rows plotted
Figure(rows) == [raised |-> "none", drawn |-> TRUE, rows |-> rows]

NoFigure == [raised |-> "none", drawn |-> FALSE, rows |-> <<>>]

FigureRaised(exc) == [raised |-> exc, drawn |-> FALSE, rows |-> <<>>]

\* lines 350-365 for one hour of interval_occ_ci_fig
ci_fig_row(rows, h) ==
    LET xs      == NonNull(Column(hour_group(rows, h), "occ"))
        n       == Len(xs)
        m       == Frac(SumSeq(xs), n)
        std     == variance(xs)
        std_occ == IF isna(std) THEN <<0, 1>> ELSE Val(std)
        se2     == se_squared(std_occ, IF n < 1 THEN 1 ELSE n)
    IN [hour     |-> h,
        mean_occ |-> m,
        n        |-> n,
        ci_low   |-> Num(ci_bound(m, -1, se2)),
        ci_high  |-> Num(ci_bound(m, 1, se2))]

interval_occ_ci_fig(f) ==
    IF ~({"interval", "occ"} \subseteq f.cols) THEN FigureRaised("KeyError")
    ELSE LET df2  == SelectSeq(f.rows, LAMBDA r : ~isna(r.interval) /\ ~isna(r.occ))
             hrs  == [i \in 1..Len(df2) |->
                        [df2[i] EXCEPT !.hour_bin = Num(Val(df2[i].interval) \div 3600)]]
             in24 == SelectSeq(hrs, LAMBDA r : Val(r.hour_bin) >= 0 /\ Val(r.hour_bin) <= 23)
             keys == hour_keys(in24)
         IN Figure([i \in 1..Len(keys) |-> ci_fig_row(in24, keys[i])])

\* lines 112-120 for one value of interval / 3600 of interval_occ_ci_plot
ci_plot_row(rows, t) ==
    LET xs  == NonNull(Column(SelectSeq(rows, LAMBDA r : r.interval = Num(t)), "occ"))
        n   == Len(xs)
        m   == Frac(SumSeq(xs), n)
        std == variance(xs)
        se2 == IF isna(std) \/ n = 0 THEN NaN ELSE Num(se_squared(Val(std), n))
    IN [hour     |-> Frac(t, 3600),
        mean_occ |-> m,
        n        |-> n,
        ci_low   |-> IF isna(se2) THEN NaN ELSE Num(ci_bound(m, -1, Val(se2))),
        ci_high  |-> IF isna(se2) THEN NaN ELSE Num(ci_bound(m, 1, Val(se2)))]

interval_occ_ci_plot(f) ==
    IF ~({"interval", "occ"} \subseteq f.cols) THEN FigureRaised("KeyError")
    ELSE LET d    == SelectSeq(f.rows, LAMBDA r : ~isna(r.interval) /\ ~isna(r.occ))
             keys == Ascending({Val(d[i].interval) : i \in 1..Len(d)})
         IN IF Len(d) = 0 THEN NoFigure
            ELSE Figure([i \in 1..Len(keys) |-> ci_plot_row(d, keys[i])])

\* line 277: np.where(dayofweek < 5, ...); NaN < 5 is False
day_type_of(wd) == IF ~isna(wd) /\ Val(wd) < 5 THEN "Hari Kerja" ELSE "Akhir Pekan"

add_day_type(rows) == [i \in 1..Len(rows) |-> day_type_of(dt_weekday(rows[i].day))]

\* lines 284-288: the labels and sizes of the pie, as <<label, size>> pairs
pie_weekday_weekend_fig(f) ==
    IF "day" \notin f.cols THEN FigureRaised("KeyError")
    ELSE LET t == add_day_type(f.rows)
         IN Figure({<<l, Cardinality({i \in 1..Len(t) : t[i] = l})>> :
                      l \in {t[i] : i \in 1..Len(t)}})

\* the script's df (lines 154-155), which the figure functions are given
ScriptDf == drop_useless_columns(cache_data(cache, csv))

CallCiFig ==
    /\ cache' = Num(cache_data(cache, csv))
    /\ fig' = [which |-> "interval_occ_ci_fig", made |-> interval_occ_ci_fig(ScriptDf)]
    /\ UNCHANGED <<csv, params, df, df_f, view, probe>>

CallCiPlot ==
    /\ cache' = Num(cache_data(cache, csv))
    /\ fig' = [which |-> "interval_occ_ci_plot", made |-> interval_occ_ci_plot(ScriptDf)]
    /\ UNCHANGED <<csv, params, df, df_f, view, probe>>

CallPie ==
    /\ cache' = Num(cache_data(cache, csv))
    /\ fig' = [which |-> "pie_weekday_weekend_fig", made |-> pie_weekday_weekend_fig(ScriptDf)]
    /\ UNCHANGED <<csv, params, df, df_f, view, probe>>

FigRows ==
    [detid    : {Num("a")},
     day      : {Cell(Friday), Cell(Saturday), Junk},
     interval : {Cell(0), Cell(3700), Cell(86400), Junk},
     flow     : {Cell(1)},
     occ      : {Cell(1), Cell(3), Junk}]

InitFig == csv \in {File(RawCols, r) : r \in SeqsUpTo(FigRows, MaxFigRows)} /\ Fresh

NextFig == CallCiFig \/ CallCiPlot \/ CallPie

SpecFig == InitFig /\ [][NextFig]_vars

---------------------------------------------------------------------------
(* Properties of the classifier (SpecClassifier) *)

Labels == {"Lancar", "Sedang", "Padat", "Sangat Padat"}

\* Light < Moderate < Heavy < Severe
Severity(label) ==
    CASE label = "Lancar" -> 1
      [] label = "Sedang" -> 2
      [] label = "Padat" -> 3
      [] label = "Sangat Padat" -> 4
      [] OTHER -> 0

HasFlow(series) == \E i \in 1..Len(series) : ~isna(series[i])

\* Scenario C: quartiles 50, 100, 150 of the flows 0, 50, 100, 150, 200 at
\* Sedang; 50 is Lancar, 100 is Sedang, 151 is Sangat Padat
ScenarioC ==
    LET t == get_thresholds(<<Num(200), Num(50), NaN, Num(0), Num(150), Num(100)>>, "Sedang")
    IN /\ t = <<<<50, 1>>, <<100, 1>>, <<150, 1>>>>
       /\ classify_status(Num(<<50, 1>>), t) = "Lancar"
       /\ classify_status(Num(<<100, 1>>), t) = "Sedang"
       /\ classify_status(Num(<<151, 1>>), t) = "Sangat Padat"

\* C3: after a call of get_thresholds and classify_status, the thresholds are
\* defined iff the series has a non-missing flow, and then q1 <= q2 <= q3, all
\* three lie between the smallest and the largest flow, and a non-missing value v
\* gets exactly the label of its interval: Lancar iff v <= q1, Sedang iff
\* q1 < v <= q2, Padat iff q2 < v <= q3, Sangat Padat iff v > q3; the label is
\* Tidak tersedia iff the thresholds are undefined or v is missing.  Scenario C
\* holds.
C3_ClassifierPartition ==
    probe.called =>
      LET t == probe.thresholds
          v == probe.flow_value
          l == probe.status
      IN /\ (t # <<>>) <=> HasFlow(csv.flow)
         /\ (l = "Tidak tersedia") <=> (t = <<>> \/ isna(v))
         /\ l \in Labels \cup {"Tidak tersedia"}
         /\ t # <<>> =>
              /\ Len(t) = 3
              /\ FracLeq(t[1], t[2]) /\ FracLeq(t[2], t[3])
              /\ \E i \in 1..Len(csv.flow) :
                    ~isna(csv.flow[i]) /\ FracLeq(FracOfInt(Val(csv.flow[i])), t[1])
              /\ \E i \in 1..Len(csv.flow) :
                    ~isna(csv.flow[i]) /\ FracLeq(t[3], FracOfInt(Val(csv.flow[i])))
         /\ (t # <<>> /\ ~isna(v)) =>
              /\ (l = "Lancar") <=> FracLeq(Val(v), t[1])
              /\ (l = "Sedang") <=> (FracLt(t[1], Val(v)) /\ FracLeq(Val(v), t[2]))
              /\ (l = "Padat") <=> (FracLt(t[2], Val(v)) /\ FracLeq(Val(v), t[3]))
              /\ (l = "Sangat Padat") <=> FracLt(t[3], Val(v))
         /\ ScenarioC

\* a value exactly on q2, above q1, is classified Sedang
C3_Witness ==
    /\ probe.called
    /\ probe.thresholds # <<>>
    /\ ~isna(probe.flow_value)
    /\ Val(probe.flow_value) = probe.thresholds[2]
    /\ FracLt(probe.thresholds[1], probe.thresholds[2])
    /\ FracLt(probe.thresholds[2], probe.thresholds[3])
    /\ probe.status = "Sedang"

\* C10: for a series with a non-missing flow and a non-missing value v, the
\* status at Tinggi is at least as severe as at Sedang, which is at least as
\* severe as at Rendah; a sensitivity other than Rendah and Tinggi gets the
\* thresholds of Sedang.
C10_SensitivityMonotone ==
    (probe.called /\ HasFlow(csv.flow)) =>
      LET v     == probe.flow_value
          at(s) == IF s = probe.sensitivity THEN probe.status
                   ELSE classify_status(v, get_thresholds(csv.flow, s))
      IN /\ ~isna(v) =>
              /\ Severity(at("Tinggi")) >= Severity(at("Sedang"))
              /\ Severity(at("Sedang")) >= Severity(at("Rendah"))
              /\ at("Rendah") \in Labels
         /\ probe.sensitivity \notin {"Rendah", "Tinggi"} =>
              /\ probe.thresholds = get_thresholds(csv.flow, "Sedang")
              /\ probe.status = classify_status(v, get_thresholds(csv.flow, "Sedang"))

\* a call at Tinggi whose status is strictly more severe than at Sedang, which
\* is strictly more severe than at Rendah
C10_Witness ==
    /\ probe.called
    /\ probe.sensitivity = "Tinggi"
    /\ ~isna(probe.flow_value)
    /\ Severity(probe.status) >
         Severity(classify_status(probe.flow_value, get_thresholds(csv.flow, "Sedang")))
    /\ Severity(classify_status(probe.flow_value, get_thresholds(csv.flow, "Sedang"))) >
         Severity(classify_status(probe.flow_value, get_thresholds(csv.flow, "Rendah")))
    /\ classify_status(probe.flow_value, get_thresholds(csv.flow, "Rendah")) \in Labels

---------------------------------------------------------------------------
(* Properties of the script run (Spec, SpecAgg) *)

Ran == view # <<>>

\* the indices of the rows of a frame that lie in hour bucket h
InBucket(rows, h) == {i \in 1..Len(rows) : rows[i].hour_bin = Num(h)}

\* the indices among I whose column c is present
Present(rows, I, c) == {i \in I : ~isna(rows[i][c])}

RECURSIVE SumAt(_, _, _)
SumAt(rows, I, c) ==
    IF I = {} THEN 0
    ELSE LET i == CHOOSE j \in I : TRUE
         IN Val(rows[i][c]) + SumAt(rows, I \ {i}, c)

\* m is the arithmetic mean of column c over the rows I that have it (missing
\* when there is none)
IsMeanOf(m, rows, I, c) ==
    LET P == Present(rows, I, c)
    IN IF P = {} THEN isna(m)
       ELSE ~isna(m) /\ Val(m)[1] * Cardinality(P) = Val(m)[2] * SumAt(rows, P, c)

\* C1: after load_data, a row's hour bucket is floor(interval / 3600) when the
\* interval parses and lies in 0..86399, and is missing otherwise (negative,
\* above 86399 or unparsable); no bucket lies outside 0..23.
C1_HourResolver ==
    cache # <<>> =>
      \A i \in 1..Len(csv.rows) :
        LET raw == csv.rows[i].interval
            got == Val(cache).rows[i].hour_bin
        IN IF raw.ok /\ raw.val >= 0 /\ raw.val <= 86399
           THEN got = Num(raw.val \div 3600)
           ELSE isna(got)

\* C2: the counts n of the hourly aggregate sum to the number of filtered
\* records that have both an hour bucket and a flow.
C2_CountConservation ==
    (Ran /\ Val(view).exc = "none") =>
      LET rows == Val(df_f).rows
          a    == Val(view).agg24
      IN SumSeq([i \in 1..Len(a) |-> a[i].n]) =
           Cardinality({i \in 1..Len(rows) : ~isna(rows[i].hour_bin) /\ ~isna(rows[i].flow)})

\* C4: a run whose filters leave no record, or no record in the selected hour,
\* does not fail: the aggregate is empty (has no row for that hour), the
\* metrics show count 0 and a dash for flow_mean and occ_mean, and the status
\* is Tidak tersedia.
C4_EmptyResult ==
    LET rows == Val(df_f).rows
        h    == Val(params).hour_selected
        v    == Val(view)
    IN (Ran /\ InBucket(rows, h) = {}) =>
         /\ v.exc = "none"
         /\ Len(rows) = 0 => v.agg24 = <<>>
         /\ \A i \in 1..Len(v.agg24) : v.agg24[i].hour_bin # h
         /\ v.n_text = Num(0)
         /\ v.flow_text # <<>> /\ Val(v.flow_text).text = "dash"
         /\ v.occ_text # <<>> /\ Val(v.occ_text).text = "dash"
         /\ v.status = "Tidak tersedia"

\* C5: a record with a parseable date is Akhir Pekan iff its date is a Saturday
\* or a Sunday and Hari Kerja otherwise; a record whose date does not parse is
\* in neither the Hari Kerja nor the Akhir Pekan result, and with the filter
\* Semua it is counted in the hourly aggregate when its interval parses.
C5_DayType ==
    Ran =>
      LET base == Val(df).rows
          kept == Val(df_f).rows
          v    == Val(view)
      IN /\ \A i \in 1..Len(base) :
              ~isna(base[i].day) =>
                base[i].kategori_hari =
                  IF (Val(base[i].day) + 3) % 7 \in {5, 6} THEN "Akhir Pekan" ELSE "Hari Kerja"
         /\ Val(params).day_mode # "Semua" =>
              \A i \in 1..Len(kept) : ~isna(kept[i].day)
         /\ (Val(params).day_mode = "Semua" /\ v.exc = "none") =>
              \A i \in 1..Len(kept) :
                (isna(kept[i].day) /\ ~isna(kept[i].interval)) =>
                  \E j \in 1..Len(v.agg24) :
                    /\ kept[i].hour_bin = Num(v.agg24[j].hour_bin)
                    /\ v.agg24[j].n >= 1

\* C6: every run completes: no step raises, whatever the file holds and
\* whatever the controls select, and a file without a detid column only has the
\* detector ranking disabled.
C6_NoFatal ==
    Ran =>
      /\ Val(view).exc = "none"
      /\ "detid" \notin Val(df).cols => (~Val(view).ranking /\ Val(view).top10 = <<>>)

ScenarioA ==
    LET r(i, x) == [detid |-> Num("a"), day |-> Cell(Friday), interval |-> Cell(i),
                    flow |-> Cell(x), occ |-> Cell(1)]
        f == drop_useless_columns(load_data(File(RawCols, <<r(0, 10), r(3600, 20)>>)))
        a == agg_24h(apply_filters(f, "Semua", "Semua Detektor"))
    IN /\ a.raised = "none"
       /\ [i \in 1..Len(a.rows) |-> <<a.rows[i].hour_bin, a.rows[i].flow_mean, a.rows[i].n>>]
            = << <<0, Num(<<10, 1>>), 1>>, <<1, Num(<<20, 1>>), 1>> >>

---------------------------------------------------------------------------
(* Properties of the figure functions (SpecFig) *)

\* C7: in the band of interval_occ_ci_fig and of interval_occ_ci_plot every
\* group has at least one sample, a group of one sample has ci_low = ci_high =
\* mean, and a group of two or more has ci_low = mean - 1.96 * std / sqrt(n) and
\* ci_high = mean + 1.96 * std / sqrt(n).
C7_CIBand ==
    (fig # <<>> /\ fig.which # "pie_weekday_weekend_fig" /\ fig.made.raised = "none") =>
      \A i \in 1..Len(fig.made.rows) :
        LET g == fig.made.rows[i]
        IN /\ g.n >= 1
           /\ g.n = 1 =>
                /\ g.ci_low = Num([mid |-> g.mean_occ, side |-> 0, width2 |-> <<0, 1>>])
                /\ g.ci_high = g.ci_low
           /\ g.n >= 2 =>
                /\ ~isna(g.ci_low) /\ ~isna(g.ci_high)
                /\ Val(g.ci_low).mid = g.mean_occ /\ Val(g.ci_high).mid = g.mean_occ
                /\ Val(g.ci_low).width2 = Val(g.ci_high).width2
                /\ Val(g.ci_low).side = - Val(g.ci_high).side

====
